---- MODULE Spec2Model ----
(***************************************************************************)
(* cargo-hyperlight: environment resolution, flag accumulation, command    *)
(* composition and launch, the sysroot build (one invocation, and two     *)
(* running at the same time), the toolchain locator and the target         *)
(* specification, as state machines.                                       *)
(*                                                                         *)
(* OsString values are TLA+ strings ("" is the empty OsString, \o is       *)
(* OsString::push).  Target triples are sequences of one-character strings *)
(* so that str::replace and str::to_uppercase act on characters.           *)
(* Option<OsString> is a record [some, v]; maps (BTreeMap / HashMap / the  *)
(* process environment) are functions whose domain is the set of keys      *)
(* present.                                                                *)
(***************************************************************************)
EXTENDS Naturals, Sequences, FiniteSets, TLC

VARIABLES
    hostEnv,    \* the environment of the running process (std::env::vars_os)
    cmd,        \* the crate's Command under construction (command.rs)
    calls,      \* the builder calls made on cmd so far, in order
    pc,         \* position of the front end: builder, prepare, spawned, ...
    mode,       \* "none", "status" (supervised) or "exec" (replace)
    args,       \* the Args built by build_args (its env is resolve_env)
    std,        \* the std::process::Command being composed
    childEnv,   \* the environment received by the launched process
    last,       \* the last operation applied to std, with std before it
    nsets,      \* number of env / env_remove / env_clear calls on std so far
    nappends,   \* number of flag appends applied to std so far
    disk,       \* the sysroot tree on disk under the target directory
    sr,         \* the running sysroot::build invocation
    runs,       \* number of sysroot::build invocations started so far
    startDisk,  \* the disk as it was when the current invocation started
    locator,    \* the executable search path and the last results of the probes
    target_spec, \* the baseline target specification and the patched one
    child,      \* the supervised child process and what checked_status returned
    par         \* the invocations of sysroot::build running at the same time

envVars == <<hostEnv, cmd, calls, pc, mode, args, std, childEnv, last, nsets, nappends>>
sysVars == <<disk, sr, runs, startDisk>>
auxVars == <<locator, target_spec, par>>
vars == <<hostEnv, cmd, calls, pc, mode, args, std, childEnv, last, nsets, nappends,
          disk, sr, runs, startDisk, locator, target_spec, child, par>>

(***************************************************************************)
(* Bounds                                                                  *)
(***************************************************************************)
MaxCalls == 2       \* builder calls on one Command
MaxStdCalls == 1    \* env / env_remove / env_clear calls on one std command
MaxAppends == 2     \* flag appends on one std command
MaxHostVars == 2    \* variables defined in the host environment of the front end
MaxFlagHostVars == 1 \* variables defined in the host environment of flag composition
MaxRuns == 2        \* sysroot::build invocations on one target directory
MaxOutputs == 2     \* output paths reported by one dry run

(***************************************************************************)
(* Option and map primitives                                               *)
(***************************************************************************)
None == [some |-> FALSE, v |-> ""]
Some(s) == [some |-> TRUE, v |-> s]

EmptyMap == [k \in {} |-> ""]
Insert(m, k, x) == [j \in (DOMAIN m) \cup {k} |-> IF j = k THEN x ELSE m[j]]
Remove(m, k) == [j \in (DOMAIN m) \ {k} |-> m[j]]

\* std::env::var_os on the process environment penv
var_os(penv, key) == IF key \in DOMAIN penv THEN Some(penv[key]) ELSE None

\* Option::unwrap_or_default
unwrap_or_default(o) == IF o.some THEN o.v ELSE ""

(***************************************************************************)
(* Characters and triples                                                  *)
(***************************************************************************)
Lower == <<"a","b","c","d","e","f","g","h","i","j","k","l","m",
           "n","o","p","q","r","s","t","u","v","w","x","y","z">>
Upper == <<"A","B","C","D","E","F","G","H","I","J","K","L","M",
           "N","O","P","Q","R","S","T","U","V","W","X","Y","Z">>

to_uppercase_char(c) ==
    IF \E i \in DOMAIN Lower : Lower[i] = c
    THEN Upper[CHOOSE i \in DOMAIN Lower : Lower[i] = c]
    ELSE c

\* str::replace('-', "_")
replace_hyphens(t) == [i \in DOMAIN t |-> IF t[i] = "-" THEN "_" ELSE t[i]]

\* str::to_uppercase
to_uppercase(t) == [i \in DOMAIN t |-> to_uppercase_char(t[i])]

\* the string made of the characters of t (format!("{t}"))
RECURSIVE Str(_)
Str(t) == IF t = <<>> THEN "" ELSE Head(t) \o Str(Tail(t))

HyperlightTriple ==
    <<"x","8","6","_","6","4","-","h","y","p","e","r","l","i","g","h","t","-","n","o","n","e">>
ShortTriple == <<"a","-","b">>
Triples == {HyperlightTriple, ShortTriple}

(***************************************************************************)
(* Environment resolver                                                    *)
(***************************************************************************)
\* the loop of merge_env over the overlay entries not yet applied
RECURSIVE merge_env_loop(_, _, _)
merge_env_loop(base, envs, todo) ==
    IF todo = {} THEN base
    ELSE LET k == CHOOSE x \in todo : TRUE
             next == IF envs[k].some
                     THEN Insert(base, k, envs[k].v)
                     ELSE Remove(base, k)
         IN merge_env_loop(next, envs, todo \ {k})

\* merge_env with the unset entries skipped instead of removed
merge_env_unset_ignored(base, envs) ==
    LET sets == {k \in DOMAIN envs : envs[k].some}
    IN [k \in (DOMAIN base) \cup sets |-> IF k \in sets THEN envs[k].v ELSE base[k]]

merge_env(base, envs) == merge_env_loop(base, envs, DOMAIN envs)

(***************************************************************************)
(* std::process::Command: the environment part of the standard library's   *)
(* process builder, as the repository uses it                              *)
(***************************************************************************)
StdCommand_new ==
    [program |-> "", args |-> <<>>, cwd |-> None, clear |-> FALSE, vars |-> EmptyMap]

StdCommand_args(c, more) == [c EXCEPT !.args = @ \o more]

StdCommand_current_dir(c, dir) == [c EXCEPT !.cwd = Some(dir)]

StdCommand_env(c, key, val) == [c EXCEPT !.vars = Insert(@, key, Some(val))]

StdCommand_env_remove(c, key) ==
    IF c.clear
    THEN [c EXCEPT !.vars = Remove(@, key)]
    ELSE [c EXCEPT !.vars = Insert(@, key, None)]

StdCommand_env_clear(c) == [c EXCEPT !.clear = TRUE, !.vars = EmptyMap]

\* the environment a spawned child receives from c in a process whose
\* environment is penv
spawn_env(penv, c) ==
    LET inherited == IF c.clear THEN EmptyMap ELSE penv
        present == {k \in (DOMAIN inherited) \cup (DOMAIN c.vars) :
                       IF k \in DOMAIN c.vars THEN c.vars[k].some ELSE TRUE}
    IN [k \in present |-> IF k \in DOMAIN c.vars THEN c.vars[k].v ELSE inherited[k]]

(***************************************************************************)
(* CargoCmd for std::process::Command (cargo_cmd.rs)                       *)
(***************************************************************************)
get_env(penv, c, key) ==
    IF key \in DOMAIN c.vars THEN c.vars[key] ELSE var_os(penv, key)

\* new_flags after the optional separating space and the pushed flags
push_flags(current, flags) ==
    IF current # "" THEN (current \o " ") \o flags ELSE flags

\* append_rustflags without the early return on empty flags
append_rustflags_no_early_return(penv, c, flags) ==
    LET new_flags == unwrap_or_default(get_env(penv, c, "RUSTFLAGS"))
    IN StdCommand_env(c, "RUSTFLAGS", push_flags(new_flags, flags))

append_rustflags(penv, c, flags) ==
    IF flags = "" THEN c
    ELSE LET new_flags == unwrap_or_default(get_env(penv, c, "RUSTFLAGS"))
         IN StdCommand_env(c, "RUSTFLAGS", push_flags(new_flags, flags))

append_bindgen_cflags(penv, c, flags) ==
    IF flags = "" THEN c
    ELSE LET new_flags == unwrap_or_default(get_env(penv, c, "BINDGEN_EXTRA_CLANG_ARGS"))
         IN StdCommand_env(c, "BINDGEN_EXTRA_CLANG_ARGS", push_flags(new_flags, flags))

search_keys(triplet) ==
    LET triplet_snake_case == replace_hyphens(triplet)
        triplet_snake_case_upper == to_uppercase(triplet_snake_case)
    IN << "CFLAGS_" \o Str(triplet),
          "CFLAGS_" \o Str(triplet_snake_case),
          "CFLAGS_" \o Str(triplet_snake_case_upper),
          "CFLAGS_hyperlight",
          "CFLAGS_HYPERLIGHT",
          "HYPERLIGHT_CFLAGS",
          "TARGET_CFLAGS",
          "CFLAGS" >>

\* search_keys.iter().find_map(|key| get_env(self, key))
RECURSIVE find_map(_, _, _)
find_map(penv, c, keys) ==
    IF keys = <<>> THEN None
    ELSE LET found == get_env(penv, c, Head(keys))
         IN IF found.some THEN found ELSE find_map(penv, c, Tail(keys))

\* append_cflags writing the result back to the generic CFLAGS
append_cflags_writes_generic(penv, c, triplet, flags) ==
    IF flags = "" THEN c
    ELSE LET keys == search_keys(triplet)
             new_flags == unwrap_or_default(find_map(penv, c, keys))
             written == StdCommand_env(c, keys[8], push_flags(new_flags, flags))
         IN append_bindgen_cflags(penv, written, flags)

append_cflags(penv, c, triplet, flags) ==
    IF flags = "" THEN c
    ELSE LET keys == search_keys(triplet)
             new_flags == unwrap_or_default(find_map(penv, c, keys))
             written == StdCommand_env(c, keys[1], push_flags(new_flags, flags))
         IN append_bindgen_cflags(penv, written, flags)

target(c, triplet) == StdCommand_env(c, "CARGO_BUILD_TARGET", Str(triplet))

target_dir(c, path) ==
    StdCommand_env(StdCommand_env(c, "CARGO_BUILD_TARGET_DIR", path), "CARGO_TARGET_DIR", path)

cc_env(c, triplet, cc) ==
    StdCommand_env(StdCommand_env(c, "CC_" \o Str(triplet), cc), "CLANG_PATH", cc)

ar_env(c, triplet, ar) == StdCommand_env(c, "AR_" \o Str(triplet), ar)

sysroot(penv, c, path) ==
    append_rustflags(penv, append_rustflags(penv, c, "--sysroot"), path)

entrypoint(penv, c, entry) == append_rustflags(penv, c, "-Clink-args=-e" \o entry)

allow_unstable(c) == StdCommand_env(c, "RUSTC_BOOTSTRAP", "1")

CargoCmd_resolve_env(c, base) == merge_env(base, c.vars)

\* the streams std::process::Command::output gives the child for the
\* configuration cfg: stdout and stderr are piped and stdin is null unless
\* configured otherwise
output_stdio(cfg) ==
    [ stdin |-> IF cfg.stdin = "default" THEN "null" ELSE cfg.stdin,
      stdout |-> IF cfg.stdout = "default" THEN "piped" ELSE cfg.stdout,
      stderr |-> IF cfg.stderr = "default" THEN "piped" ELSE cfg.stderr ]

\* Output::stderr: what the parent read from the child's standard error
captured(stream, text) == IF stream = "piped" THEN text ELSE ""

Ok == [ok |-> TRUE, error |-> [msg |-> "", code |-> 0, command |-> StdCommand_new, stderr |-> ""]]
Err(msg, code, c, stderr) ==
    [ok |-> FALSE, error |-> [msg |-> msg, code |-> code, command |-> c, stderr |-> stderr]]

\* checked_output on command c with stream configuration cfg, for a child
\* that ends with outcome after writing text to its standard error
checked_output(c, cfg, outcome, text) ==
    LET stderr == captured(output_stdio(cfg).stderr, text)
    IN IF outcome.kind = "spawn_error" THEN Err("Failed to execute command", 0, c, "")
       ELSE IF outcome.kind = "exit" /\ outcome.code = 0 THEN Ok
       ELSE IF outcome.kind = "exit"
            THEN Err("Command exited with code", outcome.code, c, stderr)
            ELSE Err("Command terminated by signal", 0, c, stderr)

\* self.stderr(Stdio::inherit()); self.stdout(Stdio::inherit())
checked_status_stdio(cfg) == [cfg EXCEPT !.stderr = "inherit", !.stdout = "inherit"]

checked_status(c, cfg, outcome, text) ==
    checked_output(c, checked_status_stdio(cfg), outcome, text)

\* the dry-run cargo invocation composed by the sysroot build for Args a
\* (sysroot.rs: cargo().env_clear().envs(args.env) ... .sysroot(dir))
RECURSIVE StdCommand_envs(_, _, _)
StdCommand_envs(c, m, todo) ==
    IF todo = {} THEN c
    ELSE LET k == CHOOSE x \in todo : TRUE
         IN StdCommand_envs(StdCommand_env(c, k, m[k]), m, todo \ {k})

(***************************************************************************)
(* Args: resolved build parameters (cli.rs) and the paths derived from     *)
(* them (lib.rs)                                                           *)
(***************************************************************************)
\* Path::join of a relative component
join(path, component) == (path \o "/") \o component

sysroot_dir(a) == join(a.target_dir, "sysroot")
triplet_dir(a) == join(join(join(sysroot_dir(a), "lib"), "rustlib"), Str(a.target))
build_dir(a) == join(sysroot_dir(a), "target")
libs_dir(a) == join(triplet_dir(a), "lib")
includes_dir(a) == join(triplet_dir(a), "include")
crate_dir(a) == join(sysroot_dir(a), "crate")
build_plan_dir(a) == join(sysroot_dir(a), "build-plan")

FLAGS == << "--target=x86_64-unknown-linux-none",
            "-fno-stack-protector",
            "-fstack-clash-protection",
            "-mstack-probe-size=4096",
            "-mno-red-zone",
            "-nostdinc" >>

\* the loop of cflags: every flag is pushed followed by a space
RECURSIVE cflags_loop(_, _)
cflags_loop(flags, todo) ==
    IF todo = <<>> THEN flags
    ELSE cflags_loop((flags \o Head(todo)) \o " ", Tail(todo))

cflags(a) == (((cflags_loop("", FLAGS) \o " ") \o "-isystem") \o " ") \o includes_dir(a)

(***************************************************************************)
(* Command: the crate's cargo process builder (command.rs)                 *)
(***************************************************************************)
\* find_cargo: the CargoBinary remembers the parent's RUSTUP_TOOLCHAIN
find_cargo(penv) ==
    [ path |-> IF var_os(penv, "CARGO").some THEN var_os(penv, "CARGO").v
               ELSE "/usr/bin/cargo",
      rustup_toolchain |-> var_os(penv, "RUSTUP_TOOLCHAIN") ]

Command_new(penv) ==
    [ cargo |-> find_cargo(penv), args |-> <<>>, inherit_envs |-> TRUE,
      envs |-> EmptyMap, current_dir |-> None ]

Command_arg(c, a) == [c EXCEPT !.args = Append(@, a)]

Command_current_dir(c, dir) == [c EXCEPT !.current_dir = Some(dir)]

Command_env(c, key, val) == [c EXCEPT !.envs = Insert(@, key, Some(val))]

\* env_clear that stops inheritance but keeps the explicit entries
Command_env_clear_keeps_envs(c) == [c EXCEPT !.inherit_envs = FALSE]

Command_env_clear(c) == [c EXCEPT !.inherit_envs = FALSE, !.envs = EmptyMap]

Command_env_remove(c, key) == [c EXCEPT !.envs = Insert(@, key, None)]

\* for (k, v) in envs { self.env(k, v) }
RECURSIVE Command_envs(_, _)
Command_envs(c, pairs) ==
    IF pairs = <<>> THEN c
    ELSE Command_envs(Command_env(c, Head(pairs)[1], Head(pairs)[2]), Tail(pairs))

\* a base environment that ignores env_clear
base_env_inherits(penv, c) == penv

base_env(penv, c) == IF c.inherit_envs THEN penv ELSE EmptyMap

resolve_env(penv, c) == merge_env(base_env(penv, c), c.envs)

CargoBinary_command(cargo) ==
    LET created == [StdCommand_new EXCEPT !.program = cargo.path]
    IN IF cargo.rustup_toolchain.some
       THEN StdCommand_env(created, "RUSTUP_TOOLCHAIN", cargo.rustup_toolchain.v)
       ELSE created

\* for (k, v) in self.get_envs() { env or env_remove }
RECURSIVE command_loop(_, _, _)
command_loop(command, envs, todo) ==
    IF todo = {} THEN command
    ELSE LET k == CHOOSE x \in todo : TRUE
             next == IF envs[k].some
                     THEN StdCommand_env(command, k, envs[k].v)
                     ELSE StdCommand_env_remove(command, k)
         IN command_loop(next, envs, todo \ {k})

Command_command(c) ==
    LET created == StdCommand_args(CargoBinary_command(c.cargo), c.args)
        placed == IF c.current_dir.some
                  THEN StdCommand_current_dir(created, c.current_dir.v) ELSE created
        cleared == IF ~c.inherit_envs THEN StdCommand_env_clear(placed) ELSE placed
    IN command_loop(cleared, c.envs, DOMAIN c.envs)

\* Args::parse with the command's resolved environment; tools holds the
\* outcome of the toolchain probes (find_cc().ok(), find_ar().ok())
build_args(penv, c, tools) ==
    [ target_dir |-> "/w/target",
      target |-> HyperlightTriple,
      env |-> resolve_env(penv, c),
      clang |-> tools.clang,
      ar |-> tools.ar ]

build_plan_command(penv, a) ==
    LET c0 == CargoBinary_command(find_cargo(penv))
        c1 == StdCommand_envs(StdCommand_env_clear(c0), a.env, DOMAIN a.env)
        c2 == target_dir(target(c1, a.target), build_plan_dir(a))
        c3 == StdCommand_env_remove(allow_unstable(c2), "RUSTC_WORKSPACE_WRAPPER")
    IN sysroot(penv, c3, sysroot_dir(a))

\* the downstream invocation: target, sysroot flag, entry point, compiler
\* and archiver variables, composed C flags
populate_from_args(penv, c, a) ==
    LET c1 == target(c, a.target)
        c2 == sysroot(penv, c1, sysroot_dir(a))
        c3 == entrypoint(penv, c2, "entrypoint")
        c4 == IF a.clang.some THEN cc_env(c3, a.target, a.clang.v) ELSE c3
        c5 == IF a.ar.some THEN ar_env(c4, a.target, a.ar.v) ELSE c4
    IN append_cflags(penv, c5, a.target, cflags(a))

(***************************************************************************)
(* Inputs                                                                  *)
(***************************************************************************)
\* the host environments with at most n variables
Environments(keys, vals, n) ==
    UNION {[S -> vals] : S \in {T \in SUBSET keys : Cardinality(T) <= n}}

HostVals == {"h"}

\* front end: the variables the builder calls and the host may carry
BuilderKeys == {"RUSTUP_TOOLCHAIN", "RUSTFLAGS"}
BuilderVals == {"", "v"}
BuilderHostKeys == {"PATH", "RUSTFLAGS", "RUSTUP_TOOLCHAIN"}
EnvsInputs == { << <<"RUSTFLAGS", "v">>, <<"RUSTUP_TOOLCHAIN", "v">> >>,
                << <<"RUSTFLAGS", "v">>, <<"RUSTFLAGS", "">> >> }
\* the ways the supervised child may end and what it may have written to
\* its standard error
Outcomes == {[kind |-> "exit", code |-> 0], [kind |-> "exit", code |-> 101],
             [kind |-> "signal", code |-> 0]}
StderrTexts == {"", "error: could not compile"}

ArgInputs == {"build"}
DirInputs == {"/w/guest"}

ToolOutcomes == { [clang |-> Some("/usr/bin/clang"), ar |-> Some("/usr/bin/ar")],
                  [clang |-> None, ar |-> None] }

\* flag composition: the precedence chain of the triple and the other flag
\* variables
ChainKeys == {search_keys(HyperlightTriple)[i] : i \in 1..8}
FlagHostKeys == ChainKeys \cup {"PATH", "RUSTFLAGS", "BINDGEN_EXTRA_CLANG_ARGS"}
OverlayKeys == FlagHostKeys
OverlayVals == {"", "-O2"}
FlagInputs == {"", "-fPIC"}

NoArgs == [target_dir |-> "", target |-> <<>>, env |-> EmptyMap, clang |-> None, ar |-> None]
NoOp == [op |-> "none", triplet |-> <<>>, flags |-> "", pre |-> StdCommand_new]

\* the sysroot tree of a fresh target directory: no target descriptor, no
\* scratch crate, nothing built, no library directory
EmptyDisk ==
    [ descriptor |-> 0,        \* run that last wrote target.json, 0 if absent
      crate |-> 0,             \* run that last wrote the scratch crate, 0 if absent
      build |-> EmptyMap,      \* files under the build directory -> run that wrote them
      libdir |-> FALSE,        \* the library directory exists
      lib |-> EmptyMap ]       \* files of the library directory -> [built: run
                               \* that built the content, copied: run that wrote it]

IdleRun ==
    [ pc |-> "idle", target |-> <<>>, outputs |-> <<>>, artifacts |-> <<>>,
      listing |-> {}, next |-> 0, compiled |-> FALSE, at |-> "", error |-> "",
      clean |-> TRUE ]         \* no build on this tree has failed so far

NoSysroot ==
    /\ disk = EmptyDisk
    /\ sr = IdleRun
    /\ runs = 0
    /\ startDisk = EmptyDisk

\* no probe made, no target specification queried, no child spawned
NoLocator == [path |-> <<>>, cc |-> [called |-> FALSE], ar |-> [called |-> FALSE]]
NoTargetSpec == [baseline |-> EmptyMap, spec |-> EmptyMap, written |-> "none"]
NoPar == [run |-> EmptyMap, pruned |-> EmptyMap, stolen |-> {}]
NoOutcome == [kind |-> "none", code |-> 0]
NoResult == [ok |-> TRUE, error |-> [msg |-> "", code |-> 0, command |-> StdCommand_new, stderr |-> ""]]
NoChild ==
    [ state |-> "none",
      stdio |-> [stdin |-> "default", stdout |-> "default", stderr |-> "default"],
      outcome |-> NoOutcome,   \* how the child ended
      text |-> "",             \* what the child wrote to its standard error
      result |-> NoResult,     \* what checked_status returned
      image |-> [program |-> "", args |-> <<>>, cwd |-> None],
                               \* the launched program, its arguments and its
                               \* working directory (None: the caller's)
      trace |-> <<>> ]         \* the steps of status / exec made so far

(***************************************************************************)
(* Front end: builder calls on Command, then status or exec                *)
(***************************************************************************)
Init ==
    /\ hostEnv \in Environments(BuilderHostKeys, HostVals, MaxHostVars)
    /\ cmd = Command_new(hostEnv)
    /\ calls = <<>>
    /\ pc = "builder"
    /\ mode = "none"
    /\ args = NoArgs
    /\ std = StdCommand_new
    /\ childEnv = EmptyMap
    /\ last = NoOp
    /\ nsets = 0
    /\ nappends = 0
    /\ NoSysroot
    /\ locator = NoLocator
    /\ target_spec = NoTargetSpec
    /\ par = NoPar
    /\ child = NoChild

Building == pc = "builder" /\ Len(calls) < MaxCalls

env(key, val) ==
    /\ Building
    /\ cmd' = Command_env(cmd, key, val)
    /\ calls' = Append(calls, [op |-> "env", pairs |-> << <<key, val>> >>])
    /\ UNCHANGED <<hostEnv, pc, mode, args, std, childEnv, last, nsets, nappends>>
    /\ UNCHANGED sysVars
    /\ UNCHANGED <<auxVars, child>>

envs(pairs) ==
    /\ Building
    /\ cmd' = Command_envs(cmd, pairs)
    /\ calls' = Append(calls, [op |-> "env", pairs |-> pairs])
    /\ UNCHANGED <<hostEnv, pc, mode, args, std, childEnv, last, nsets, nappends>>
    /\ UNCHANGED sysVars
    /\ UNCHANGED <<auxVars, child>>

env_remove(key) ==
    /\ Building
    /\ cmd' = Command_env_remove(cmd, key)
    /\ calls' = Append(calls, [op |-> "env_remove", pairs |-> << <<key, "">> >>])
    /\ UNCHANGED <<hostEnv, pc, mode, args, std, childEnv, last, nsets, nappends>>
    /\ UNCHANGED sysVars
    /\ UNCHANGED <<auxVars, child>>

env_clear ==
    /\ Building
    /\ cmd' = Command_env_clear(cmd)
    /\ calls' = Append(calls, [op |-> "env_clear", pairs |-> <<>>])
    /\ UNCHANGED <<hostEnv, pc, mode, args, std, childEnv, last, nsets, nappends>>
    /\ UNCHANGED sysVars
    /\ UNCHANGED <<auxVars, child>>

arg(a) ==
    /\ Building
    /\ cmd' = Command_arg(cmd, a)
    /\ calls' = Append(calls, [op |-> "arg", pairs |-> <<>>])
    /\ UNCHANGED <<hostEnv, pc, mode, args, std, childEnv, last, nsets, nappends>>
    /\ UNCHANGED sysVars
    /\ UNCHANGED <<auxVars, child>>

current_dir(dir) ==
    /\ Building
    /\ cmd' = Command_current_dir(cmd, dir)
    /\ calls' = Append(calls, [op |-> "current_dir", pairs |-> <<>>])
    /\ UNCHANGED <<hostEnv, pc, mode, args, std, childEnv, last, nsets, nappends>>
    /\ UNCHANGED sysVars
    /\ UNCHANGED <<auxVars, child>>

\* the step of status / exec named step ended, with success or not
Step(step, ok) == [child EXCEPT !.trace = Append(@, [step |-> step, ok |-> ok])]

\* status() and exec() up to prepare_sysroot: build_args
begin(m, tools) ==
    /\ pc = "builder"
    /\ mode' = m
    /\ args' = build_args(hostEnv, cmd, tools)
    /\ pc' = "prepare"
    /\ UNCHANGED <<hostEnv, cmd, calls, std, childEnv, last, nsets, nappends>>
    /\ UNCHANGED sysVars
    /\ UNCHANGED <<auxVars, child>>

status_begin == \E tools \in ToolOutcomes : begin("status", tools)
exec_begin == \E tools \in ToolOutcomes : begin("exec", tools)

\* prepare_sysroot succeeded; std is the cargo invocation it composed for
\* the dry run
prepare_sysroot_ok ==
    /\ pc = "prepare"
    /\ pc' = "compose"
    /\ std' = build_plan_command(hostEnv, args)
    /\ child' = Step("prepare_sysroot", TRUE)
    /\ UNCHANGED <<hostEnv, cmd, calls, mode, args, childEnv, last, nsets, nappends>>
    /\ UNCHANGED sysVars
    /\ UNCHANGED auxVars

\* the ? after prepare_sysroot: status returns the error, exec exits with 101
prepare_sysroot_err ==
    /\ pc = "prepare"
    /\ pc' = IF mode = "status" THEN "error" ELSE "exit101"
    /\ child' = Step("prepare_sysroot", FALSE)
    /\ UNCHANGED <<hostEnv, cmd, calls, mode, args, std, childEnv, last, nsets, nappends>>
    /\ UNCHANGED sysVars
    /\ UNCHANGED auxVars

\* status: self.command().populate_from_args(&args).checked_status(), the
\* child being spawned
status_spawn ==
    /\ pc = "compose" /\ mode = "status"
    /\ std' = populate_from_args(hostEnv, Command_command(cmd), args)
    /\ childEnv' = spawn_env(hostEnv, std')
    /\ pc' = "spawned"
    /\ child' = [Step("spawn", TRUE) EXCEPT
                    !.state = "running",
                    !.stdio = output_stdio(checked_status_stdio(NoChild.stdio)),
                    !.image = [program |-> std'.program, args |-> std'.args,
                               cwd |-> std'.cwd]]
    /\ UNCHANGED <<hostEnv, cmd, calls, mode, args, last, nsets, nappends>>
    /\ UNCHANGED sysVars
    /\ UNCHANGED auxVars

\* status: the child could not be spawned
status_spawn_fail ==
    /\ pc = "compose" /\ mode = "status"
    /\ std' = populate_from_args(hostEnv, Command_command(cmd), args)
    /\ pc' = "error"
    /\ child' = [Step("spawn", FALSE) EXCEPT
                    !.state = "unspawned",
                    !.outcome = [kind |-> "spawn_error", code |-> 0],
                    !.result = checked_status(std', NoChild.stdio,
                                              [kind |-> "spawn_error", code |-> 0], "")]
    /\ UNCHANGED <<hostEnv, cmd, calls, mode, args, childEnv, last, nsets, nappends>>
    /\ UNCHANGED sysVars
    /\ UNCHANGED auxVars

\* status: the child wrote text to its standard error and ended with
\* outcome; checked_status returns
status_wait(outcome, text) ==
    /\ pc = "spawned"
    /\ child' = [child EXCEPT
                    !.state = "ended",
                    !.outcome = outcome,
                    !.text = text,
                    !.result = checked_status(std, NoChild.stdio, outcome, text)]
    /\ pc' = IF child'.result.ok THEN "ok" ELSE "error"
    /\ UNCHANGED <<hostEnv, cmd, calls, mode, args, std, childEnv, last, nsets, nappends>>
    /\ UNCHANGED sysVars
    /\ UNCHANGED auxVars

\* exec_impl: the command is composed and the working directory of the
\* process is changed to the configured one
set_current_dir_ok ==
    /\ pc = "compose" /\ mode = "exec"
    /\ cmd.current_dir.some
    /\ std' = populate_from_args(hostEnv, Command_command(cmd), args)
    /\ child' = [Step("set_current_dir", TRUE) EXCEPT !.image.cwd = cmd.current_dir]
    /\ pc' = "exec"
    /\ UNCHANGED <<hostEnv, cmd, calls, mode, args, childEnv, last, nsets, nappends>>
    /\ UNCHANGED sysVars
    /\ UNCHANGED auxVars

\* no working directory was configured: the process stays where it is
set_current_dir_skip ==
    /\ pc = "compose" /\ mode = "exec"
    /\ ~cmd.current_dir.some
    /\ std' = populate_from_args(hostEnv, Command_command(cmd), args)
    /\ pc' = "exec"
    /\ UNCHANGED <<hostEnv, cmd, calls, mode, args, childEnv, last, nsets, nappends>>
    /\ UNCHANGED sysVars
    /\ UNCHANGED <<auxVars, child>>

\* a change of directory that goes on to the replacement after it failed
set_current_dir_err_ignored ==
    /\ pc = "compose" /\ mode = "exec"
    /\ cmd.current_dir.some
    /\ std' = populate_from_args(hostEnv, Command_command(cmd), args)
    /\ child' = Step("set_current_dir", FALSE)
    /\ pc' = "exec"
    /\ UNCHANGED <<hostEnv, cmd, calls, mode, args, childEnv, last, nsets, nappends>>
    /\ UNCHANGED sysVars
    /\ UNCHANGED auxVars

\* set_current_dir failed: the error is printed and the process exits
set_current_dir_err ==
    /\ pc = "compose" /\ mode = "exec"
    /\ cmd.current_dir.some
    /\ std' = populate_from_args(hostEnv, Command_command(cmd), args)
    /\ child' = Step("set_current_dir", FALSE)
    /\ pc' = "exit101"
    /\ UNCHANGED <<hostEnv, cmd, calls, mode, args, childEnv, last, nsets, nappends>>
    /\ UNCHANGED sysVars
    /\ UNCHANGED auxVars

\* execvpe(program, args, resolve_env(base_env)): the process image is
\* replaced
exec_replace ==
    /\ pc = "exec"
    /\ childEnv' = CargoCmd_resolve_env(std, base_env(hostEnv, cmd))
    /\ child' = [Step("execvpe", TRUE) EXCEPT
                    !.state = "replaced",
                    !.image.program = std.program,
                    !.image.args = std.args]
    /\ pc' = "replaced"
    /\ UNCHANGED <<hostEnv, cmd, calls, mode, args, std, last, nsets, nappends>>
    /\ UNCHANGED sysVars
    /\ UNCHANGED auxVars

\* execvpe returned: the error is printed and the process exits with 101
exec_fail ==
    /\ pc = "exec"
    /\ child' = Step("execvpe", FALSE)
    /\ pc' = "exit101"
    /\ UNCHANGED <<hostEnv, cmd, calls, mode, args, std, childEnv, last, nsets, nappends>>
    /\ UNCHANGED sysVars
    /\ UNCHANGED auxVars

Next ==
    \/ \E k \in BuilderKeys, v \in BuilderVals : env(k, v)
    \/ \E pairs \in EnvsInputs : envs(pairs)
    \/ \E k \in BuilderKeys : env_remove(k)
    \/ env_clear
    \/ \E a \in ArgInputs : arg(a)
    \/ \E dir \in DirInputs : current_dir(dir)
    \/ status_begin
    \/ exec_begin
    \/ prepare_sysroot_ok
    \/ prepare_sysroot_err
    \/ status_spawn
    \/ status_spawn_fail
    \/ \E outcome \in Outcomes, text \in StderrTexts : status_wait(outcome, text)
    \/ set_current_dir_ok
    \/ set_current_dir_skip
    \/ set_current_dir_err
    \/ exec_replace
    \/ exec_fail

Spec == Init /\ [][Next]_vars

(***************************************************************************)
(* Properties of the front end                                             *)
(***************************************************************************)
\* R is the resolution of overlay O over base B: a set entry gives its
\* value, an unset entry removes the key, any other base entry passes
\* through, and no other key appears
Resolves(B, O, R) ==
    /\ DOMAIN R \subseteq (DOMAIN B) \cup (DOMAIN O)
    /\ \A k \in (DOMAIN B) \cup (DOMAIN O) :
          IF k \in DOMAIN O
          THEN IF O[k].some
               THEN k \in DOMAIN R /\ R[k] = O[k].v
               ELSE k \notin DOMAIN R
          ELSE k \in DOMAIN R /\ R[k] = B[k]

\* C1: the environment resolved by Command::resolve_env (for Args) and by
\* CargoCmd::resolve_env (for exec) has, for every key, the overlay's value
\* when the overlay sets it, no entry when the overlay unsets it, the base
\* entry otherwise, and no key from outside base and overlay.
EnvResolution ==
    /\ pc # "builder" => Resolves(base_env(hostEnv, cmd), cmd.envs, args.env)
    /\ pc = "replaced" => Resolves(base_env(hostEnv, cmd), std.vars, childEnv)

\* an inherited variable is unset by the overlay, another is set, and a
\* third base entry passes through
EnvResolutionWitness ==
    /\ pc = "replaced"
    /\ cmd.inherit_envs
    /\ \E k \in DOMAIN cmd.envs : k \in DOMAIN hostEnv /\ ~cmd.envs[k].some
    /\ \E k \in DOMAIN cmd.envs : cmd.envs[k].some
    /\ \E k \in DOMAIN hostEnv : k \notin DOMAIN std.vars /\ k \in DOMAIN childEnv

\* the builder call that decides key k: the last one that affects it
Affects(call, k) ==
    \/ call.op = "env_clear"
    \/ \E i \in DOMAIN call.pairs : call.pairs[i][1] = k

LastCall(k) ==
    LET affecting == {i \in DOMAIN calls : Affects(calls[i], k)}
    IN IF affecting = {} THEN 0
       ELSE CHOOSE i \in affecting : \A j \in affecting : j <= i

Decided(k) ==
    IF LastCall(k) = 0 THEN var_os(hostEnv, k)
    ELSE LET call == calls[LastCall(k)]
             at == {i \in DOMAIN call.pairs : call.pairs[i][1] = k}
         IN IF call.op = "env"
            THEN Some(call.pairs[CHOOSE i \in at : \A j \in at : j <= i][2])
            ELSE None

RustupToolchainPreserved ==
    ( /\ pc \in {"spawned", "replaced"}
      /\ ~cmd.inherit_envs
      /\ "RUSTUP_TOOLCHAIN" \in DOMAIN hostEnv
      /\ "RUSTUP_TOOLCHAIN" \notin DOMAIN cmd.envs )
    => /\ "RUSTUP_TOOLCHAIN" \in DOMAIN childEnv
       /\ childEnv["RUSTUP_TOOLCHAIN"] = hostEnv["RUSTUP_TOOLCHAIN"]

\* C16: no downstream build process is launched without the compiler and
\* archiver variables wired in: a launched process comes from a
\* configuration that holds both tools and has CC_<triple> and AR_<triple>
\* in its environment.
MissingToolNeverLaunches ==
    pc \in {"spawned", "replaced"} =>
        /\ args.clang.some
        /\ args.ar.some
        /\ ("CC_" \o Str(args.target)) \in DOMAIN childEnv
        /\ ("AR_" \o Str(args.target)) \in DOMAIN childEnv

\* C20: checked_status gives the child inherited output streams, returns Ok
\* exactly when the child exits with status zero, and otherwise returns an
\* error carrying the invocation and the text the child wrote to its
\* standard error.
SupervisedMode ==
    child.state = "ended" =>
        /\ child.stdio.stdout = "inherit"
        /\ child.stdio.stderr = "inherit"
        /\ child.result.ok <=> (child.outcome.kind = "exit" /\ child.outcome.code = 0)
        /\ ~child.result.ok =>
              /\ child.result.error.command = std
              /\ child.result.error.stderr = child.text

\* the steps exec_impl makes for the configured command, in its order
ExecSteps ==
    (<<"prepare_sysroot">>
        \o (IF cmd.current_dir.some THEN <<"set_current_dir">> ELSE <<>>))
        \o <<"execvpe">>

StepsMade == [i \in 1..Len(child.trace) |-> child.trace[i].step]

\* C21: exec never returns to its caller; it prepares the sysroot, then
\* changes the working directory only if one was configured, then replaces
\* the process image with the resolved arguments and environment; no step is
\* made after a failed one, the process exits with status 101 exactly when a
\* step failed, and the image is replaced only after every step succeeded.
ExecReplace ==
    mode = "exec" =>
        /\ pc \notin {"ok", "error", "spawned"}
        /\ Len(child.trace) <= Len(ExecSteps)
        /\ StepsMade = SubSeq(ExecSteps, 1, Len(child.trace))
        /\ \A i \in 1..(Len(child.trace) - 1) : child.trace[i].ok
        /\ pc = "exit101" <=>
              (child.trace # <<>> /\ ~child.trace[Len(child.trace)].ok)
        /\ pc = "replaced" <=>
              (StepsMade = ExecSteps /\ child.trace[Len(child.trace)].ok)
        /\ pc = "replaced" =>
              /\ child.image.program = std.program
              /\ child.image.args = std.args
              /\ childEnv = CargoCmd_resolve_env(std, base_env(hostEnv, cmd))

ExecReplaceWitness ==
    /\ mode = "exec"
    /\ pc = "replaced"
    /\ cmd.current_dir.some
    /\ Len(child.trace) = 3

\* a whitespace-delimited occurrence of the flag in the flag string
has_flag(flags, flag) ==
    \E i \in 1..(Len(flags) - Len(flag) + 1) :
        /\ SubSeq(flags, i, i + Len(flag) - 1) = flag
        /\ (i = 1 \/ SubSeq(flags, i - 1, i - 1) = " ")
        /\ (i + Len(flag) - 1 = Len(flags) \/ SubSeq(flags, i + Len(flag), i + Len(flag)) = " ")

PicFlags == {"-fPIC", "-fpic", "-fPIE", "-fpie"}

\* the command for the downstream invocation has been composed
Composed == pc \in {"spawned", "ok", "error", "exec", "replaced"} \/ child.state = "unspawned"

\* C22: the C flags composed for the downstream invocation contain the
\* architecture override, the flags disabling stack protection, the
\* no-standard-headers flag, -isystem followed by the sysroot include
\* directory, and a position-independent-code flag.
CflagsContent ==
    Composed =>
        /\ has_flag(cflags(args), "--target=x86_64-unknown-linux-none")
        /\ has_flag(cflags(args), "-fno-stack-protector")
        /\ has_flag(cflags(args), "-nostdinc")
        /\ has_flag(cflags(args), "-isystem " \o includes_dir(args))
        /\ \E pic \in PicFlags : has_flag(cflags(args), pic)

\* what exec_impl passes to execvpe for the composed command c, and the
\* directory it made current before
exec_image(c, builder) ==
    [program |-> c.program, args |-> c.args, cwd |-> builder.current_dir]

\* what the child spawned from the composed command c receives
status_image(c) == [program |-> c.program, args |-> c.args, cwd |-> c.cwd]

\* C30: the program, the arguments, the working directory and the
\* environment of the replaced process image are those the supervised child
\* would receive from the same Command, and conversely.
ModesLaunchSameInvocation ==
    /\ child.state \in {"running", "ended"} =>
          /\ child.image = exec_image(std, cmd)
          /\ childEnv = CargoCmd_resolve_env(std, base_env(hostEnv, cmd))
    /\ child.state = "replaced" =>
          /\ child.image = status_image(std)
          /\ childEnv = spawn_env(hostEnv, std)

ModesLaunchSameInvocationWitness ==
    /\ child.state = "replaced"
    /\ cmd.current_dir.some
    /\ ~cmd.inherit_envs
    /\ hostEnv # EmptyMap

(***************************************************************************)
(* Flag composition: env, env_remove, env_clear and the flag appends on    *)
(* one std::process::Command                                               *)
(***************************************************************************)
FlagInit ==
    /\ hostEnv \in Environments(FlagHostKeys, HostVals, MaxFlagHostVars)
    /\ cmd = Command_new(hostEnv)
    /\ calls = <<>>
    /\ pc = "flags"
    /\ mode = "none"
    /\ args = NoArgs
    /\ std = CargoBinary_command(find_cargo(hostEnv))
    /\ childEnv = EmptyMap
    /\ last = NoOp
    /\ nsets = 0
    /\ nappends = 0
    /\ NoSysroot
    /\ locator = NoLocator
    /\ target_spec = NoTargetSpec
    /\ par = NoPar
    /\ child = NoChild

Setting == pc = "flags" /\ nsets < MaxStdCalls
Appending == pc = "flags" /\ nappends < MaxAppends

Applied(op, triplet, flags, result) ==
    /\ std' = result
    /\ last' = [op |-> op, triplet |-> triplet, flags |-> flags, pre |-> std]
    /\ UNCHANGED <<hostEnv, cmd, calls, pc, mode, args, childEnv>>
    /\ UNCHANGED sysVars
    /\ UNCHANGED <<auxVars, child>>

std_env(key, val) ==
    /\ Setting
    /\ Applied("env", <<>>, "", StdCommand_env(std, key, val))
    /\ nsets' = nsets + 1
    /\ UNCHANGED nappends

std_env_remove(key) ==
    /\ Setting
    /\ Applied("env_remove", <<>>, "", StdCommand_env_remove(std, key))
    /\ nsets' = nsets + 1
    /\ UNCHANGED nappends

std_env_clear ==
    /\ Setting
    /\ Applied("env_clear", <<>>, "", StdCommand_env_clear(std))
    /\ nsets' = nsets + 1
    /\ UNCHANGED nappends

call_append_rustflags(flags) ==
    /\ Appending
    /\ Applied("append_rustflags", <<>>, flags, append_rustflags(hostEnv, std, flags))
    /\ nappends' = nappends + 1
    /\ UNCHANGED nsets

call_append_cflags(triplet, flags) ==
    /\ Appending
    /\ Applied("append_cflags", triplet, flags, append_cflags(hostEnv, std, triplet, flags))
    /\ nappends' = nappends + 1
    /\ UNCHANGED nsets

call_append_bindgen_cflags(flags) ==
    /\ Appending
    /\ Applied("append_bindgen_cflags", <<>>, flags, append_bindgen_cflags(hostEnv, std, flags))
    /\ nappends' = nappends + 1
    /\ UNCHANGED nsets

FlagNext ==
    \/ \E k \in OverlayKeys, v \in OverlayVals : std_env(k, v)
    \/ \E k \in OverlayKeys : std_env_remove(k)
    \/ std_env_clear
    \/ \E f \in FlagInputs : call_append_rustflags(f)
    \/ \E t \in Triples, f \in FlagInputs : call_append_cflags(t, f)
    \/ \E f \in FlagInputs : call_append_bindgen_cflags(f)

SpecFlags == FlagInit /\ [][FlagNext]_vars

(***************************************************************************)
(* Properties of flag composition                                          *)
(***************************************************************************)
AppendOps == {"append_rustflags", "append_cflags", "append_bindgen_cflags"}

\* the value variable key resolves to for command c: the overlay entry when
\* there is one, else the entry of the base, which is empty once cleared
Effective(c, key) ==
    IF key \in DOMAIN c.vars THEN c.vars[key]
    ELSE IF c.clear THEN None ELSE var_os(hostEnv, key)

\* the value of the first name of keys that resolves to a value
ChainCurrent(c, keys) ==
    LET found == {i \in DOMAIN keys : Effective(c, keys[i]).some}
    IN IF found = {} THEN None
       ELSE Effective(c, keys[CHOOSE i \in found : \A j \in found : i <= j])

\* v followed by one space and f, or f alone when v is empty
Appended(v, f) == IF v = "" THEN f ELSE (v \o " ") \o f

\* the overlay entries of c and d agree outside the keys of except
SameOutside(c, d, except) ==
    \A k \in ((DOMAIN c.vars) \cup (DOMAIN d.vars)) \ except :
        /\ k \in DOMAIN c.vars
        /\ k \in DOMAIN d.vars
        /\ c.vars[k] = d.vars[k]

\* C4: appending an empty flag value with append_rustflags, append_cflags
\* or append_bindgen_cflags leaves the overlay unchanged for every variable,
\* so every variable resolves to the same value before and after.
EmptyAppendIsNoOp ==
    (last.op \in AppendOps /\ last.flags = "")
    => /\ std = last.pre
       /\ \A k \in FlagHostKeys \cup (DOMAIN std.vars) :
              Effective(std, k) = Effective(last.pre, k)

\* an empty append on a command whose flag variable comes only from the base
EmptyAppendIsNoOpWitness ==
    /\ last.op = "append_rustflags"
    /\ last.flags = ""
    /\ "RUSTFLAGS" \in DOMAIN hostEnv
    /\ "RUSTFLAGS" \notin DOMAIN last.pre.vars
    /\ ~last.pre.clear

\* C5: appending a non-empty flag f to a flag variable whose current
\* effective value is v sets the variable in the overlay to f when v is
\* unset or empty and to v, one space, f otherwise, and leaves the variables
\* not involved unchanged.
AppendRule ==
    /\ (last.op = "append_rustflags" /\ last.flags # "")
       => /\ "RUSTFLAGS" \in DOMAIN std.vars
          /\ std.vars["RUSTFLAGS"] =
                 Some(Appended(unwrap_or_default(Effective(last.pre, "RUSTFLAGS")), last.flags))
          /\ SameOutside(std, last.pre, {"RUSTFLAGS"})
    /\ (last.op = "append_cflags" /\ last.flags # "")
       => LET keys == search_keys(last.triplet)
          IN /\ keys[1] \in DOMAIN std.vars
             /\ std.vars[keys[1]] =
                    Some(Appended(unwrap_or_default(ChainCurrent(last.pre, keys)), last.flags))
             /\ SameOutside(std, last.pre, {keys[1], "BINDGEN_EXTRA_CLANG_ARGS"})

\* C6: append_cflags appends to the value of the first name, in the order
\* of the precedence chain, that is found in the overlay or else in the
\* base, whatever the later names hold.
ChainPrecedence ==
    (last.op = "append_cflags" /\ last.flags # "")
    => LET keys == search_keys(last.triplet)
       IN /\ \A i \in DOMAIN keys :
                 ( /\ Effective(last.pre, keys[i]).some
                   /\ \A j \in 1..(i - 1) : ~Effective(last.pre, keys[j]).some )
                 => std.vars[keys[1]] =
                        Some(Appended(Effective(last.pre, keys[i]).v, last.flags))
          /\ (\A i \in DOMAIN keys : ~Effective(last.pre, keys[i]).some)
                 => std.vars[keys[1]] = Some(last.flags)

\* C7: append_cflags writes the appended result to CFLAGS_<triple> and
\* leaves every other variable of the chain untouched; when CFLAGS_<triple>
\* and the generic CFLAGS are both set it appends to the value of
\* CFLAGS_<triple> and CFLAGS keeps its value.
WritesTripleExact ==
    (last.op = "append_cflags" /\ last.flags # "")
    => LET keys == search_keys(last.triplet)
           exact == Effective(last.pre, keys[1])
       IN /\ keys[1] = "CFLAGS_" \o Str(last.triplet)
          /\ keys[1] \in DOMAIN std.vars
          /\ std.vars[keys[1]].some
          /\ std.vars[keys[1]] # Effective(last.pre, keys[1])
          /\ SameOutside(std, last.pre, {keys[1], "BINDGEN_EXTRA_CLANG_ARGS"})
          /\ \A i \in 2..Len(keys) :
                 keys[i] # keys[1] => Effective(std, keys[i]) = Effective(last.pre, keys[i])
          /\ (exact.some /\ Effective(last.pre, "CFLAGS").some)
                 => std.vars[keys[1]] = Some(Appended(exact.v, last.flags))

\* CFLAGS_<triple> and the generic CFLAGS are both set, to different values,
\* and flags are appended
WritesTripleExactWitness ==
    /\ last.op = "append_cflags"
    /\ last.flags # ""
    /\ last.triplet = HyperlightTriple
    /\ Effective(last.pre, "CFLAGS_x86_64-hyperlight-none") = Some("-O2")
    /\ Effective(last.pre, "CFLAGS") = Some("h")
    /\ std.vars["CFLAGS_x86_64-hyperlight-none"] = Some("-O2 -fPIC")

\* C8: after append_cflags with non-empty flags f, BINDGEN_EXTRA_CLANG_ARGS
\* is its own previous effective value followed by one space and f, or f
\* alone when it was unset or empty.
BindgenMirror ==
    (last.op = "append_cflags" /\ last.flags # "")
    => /\ "BINDGEN_EXTRA_CLANG_ARGS" \in DOMAIN std.vars
       /\ std.vars["BINDGEN_EXTRA_CLANG_ARGS"] =
              Some(Appended(unwrap_or_default(Effective(last.pre, "BINDGEN_EXTRA_CLANG_ARGS")),
                            last.flags))

\* the last append, applied to the same command in a process whose
\* environment is penv
LastAppendUnder(penv) ==
    CASE last.op = "append_rustflags" -> append_rustflags(penv, last.pre, last.flags)
      [] last.op = "append_cflags" -> append_cflags(penv, last.pre, last.triplet, last.flags)
      [] last.op = "append_bindgen_cflags" -> append_bindgen_cflags(penv, last.pre, last.flags)

\* C9: on a command whose base was cleared, a flag append gives the same
\* result in two runs that differ only in the host environment.
HostIndependentAppend ==
    (last.op \in AppendOps /\ last.flags # "" /\ last.pre.clear)
    => \A other \in Environments(FlagHostKeys, HostVals, MaxFlagHostVars) :
           LastAppendUnder(other) = std

(***************************************************************************)
(* Sysroot build (sysroot.rs): paths reported by the dry run, the artifact *)
(* filter, and the steps of build on the disk                              *)
(***************************************************************************)
\* the positions of character ch in the character sequence name
Positions(name, ch) == {i \in DOMAIN name : name[i] = ch}
Max(S) == CHOOSE i \in S : \A j \in S : j <= i
Min(S) == CHOOSE i \in S : \A j \in S : i <= j

\* the filter_map closure of build: path is an output of the build plan,
\* under says whether strip_prefix(build_plan_dir) succeeds on it, name is
\* its file name
is_artifact(path) ==
    /\ path.under
    /\ Positions(path.name, ".") # {}
    /\ LET dot == Max(Positions(path.name, "."))
           stem == SubSeq(path.name, 1, dot - 1)
           ext == SubSeq(path.name, dot + 1, Len(path.name))
       IN /\ Positions(stem, "-") # {}
          /\ LET crate_name == SubSeq(stem, 1, Min(Positions(stem, "-")) - 1)
             IN /\ Str(crate_name) # "libsysroot"
                /\ Str(ext) \in {"rlib", "rmeta"}

\* artifacts: the kept outputs, in the order reported
RECURSIVE filter_artifacts(_)
filter_artifacts(outputs) ==
    IF outputs = <<>> THEN <<>>
    ELSE IF is_artifact(Head(outputs))
         THEN <<Head(outputs)>> \o filter_artifacts(Tail(outputs))
         ELSE filter_artifacts(Tail(outputs))

\* the file name of an artifact, as a string
file_name(path) == Str(path.name)

\* a should_build that never sees the cache hit
should_build_always(artifacts, d) == TRUE

\* artifacts.iter().any(|f| !f.exists())
should_build(artifacts, d) ==
    \E i \in DOMAIN artifacts : file_name(artifacts[i]) \notin DOMAIN d.build

\* a filter that takes every entry for an old artifact
is_stale_any(artifacts, entry) == TRUE

\* a filter that takes no entry for an old artifact
is_stale_never(artifacts, entry) == FALSE

\* the entries of the library directory that are not the file name of any
\* artifact
is_stale(artifacts, entry) ==
    ~\E i \in DOMAIN artifacts : file_name(artifacts[i]) = entry

LibCore == <<"l","i","b","c","o","r","e","-","1",".","r","l","i","b">>
LibAlloc == <<"l","i","b","a","l","l","o","c","-","2",".","r","m","e","t","a">>
LibSysroot == <<"l","i","b","s","y","s","r","o","o","t","-","3",".","r","l","i","b">>
LibCoreNoHash == <<"l","i","b","c","o","r","e",".","r","l","i","b">>
CoreDepInfo == <<"c","o","r","e","-","1",".","d">>
LibStd == <<"l","i","b","s","t","d","-","4",".","r","l","i","b">>

\* the output paths a dry run may report, in the order it reports them
Candidates ==
    << [under |-> TRUE, name |-> LibCore],
       [under |-> TRUE, name |-> LibAlloc],
       [under |-> TRUE, name |-> LibSysroot],
       [under |-> TRUE, name |-> LibCoreNoHash],
       [under |-> TRUE, name |-> CoreDepInfo],
       [under |-> FALSE, name |-> LibStd] >>

\* the candidates at the positions of S, in order
RECURSIVE Select(_, _)
Select(S, i) ==
    IF i > Len(Candidates) THEN <<>>
    ELSE (IF i \in S THEN <<Candidates[i]>> ELSE <<>>) \o Select(S, i + 1)

\* the file names an entry of the library directory may have
EntryNames == {file_name(Candidates[i]) : i \in DOMAIN Candidates}

Plans == {Select(S, 1) : S \in {T \in SUBSET DOMAIN Candidates : Cardinality(T) <= MaxOutputs}}

Aarch64Triple ==
    <<"a","a","r","c","h","6","4","-","h","y","p","e","r","l","i","g","h","t","-","n","o","n","e">>
SysrootTargets == {HyperlightTriple, Aarch64Triple}

SysrootInit ==
    /\ hostEnv \in Environments({"RUSTUP_TOOLCHAIN"}, HostVals, 1)
    /\ cmd = Command_new(hostEnv)
    /\ calls = <<>>
    /\ pc = "sysroot"
    /\ mode = "none"
    /\ args = NoArgs
    /\ std = StdCommand_new
    /\ childEnv = EmptyMap
    /\ last = NoOp
    /\ nsets = 0
    /\ nappends = 0
    /\ NoSysroot
    /\ locator = NoLocator
    /\ target_spec = NoTargetSpec
    /\ par = NoPar
    /\ child = NoChild

At(p) == pc = "sysroot" /\ sr.pc = p

Goto(p) == sr' = [sr EXCEPT !.pc = p]

\* the ? operator: build returns the error from step sr.pc
Fail(error) == sr' = [sr EXCEPT !.pc = "failed", !.at = sr.pc, !.error = error]

\* build(args) is entered
build(t) ==
    /\ pc = "sysroot"
    /\ sr.pc \in {"idle", "done", "failed"}
    /\ runs < MaxRuns
    /\ runs' = runs + 1
    /\ sr' = [IdleRun EXCEPT !.pc = "spec", !.target = t,
                             !.clean = sr.clean /\ sr.pc # "failed"]
    /\ startDisk' = disk
    /\ UNCHANGED disk
    /\ UNCHANGED envVars
    /\ UNCHANGED <<auxVars, child>>

\* a match on args.target that comes after the target descriptor is written
unsupported_target_after_write ==
    /\ At("spec")
    /\ sr.target # HyperlightTriple
    /\ disk' = [disk EXCEPT !.descriptor = runs]
    /\ Fail("Unsupported target triple: " \o Str(sr.target))
    /\ UNCHANGED <<runs, startDisk>>
    /\ UNCHANGED envVars
    /\ UNCHANGED <<auxVars, child>>

\* the match on args.target: any other triple bails
unsupported_target ==
    /\ At("spec")
    /\ sr.target # HyperlightTriple
    /\ Fail("Unsupported target triple: " \o Str(sr.target))
    /\ UNCHANGED <<disk, runs, startDisk>>
    /\ UNCHANGED envVars
    /\ UNCHANGED <<auxVars, child>>

get_spec_ok ==
    /\ At("spec")
    /\ sr.target = HyperlightTriple
    /\ Goto("descriptor")
    /\ UNCHANGED <<disk, runs, startDisk>>
    /\ UNCHANGED envVars
    /\ UNCHANGED <<auxVars, child>>

get_spec_err ==
    /\ At("spec")
    /\ sr.target = HyperlightTriple
    /\ Fail("Failed to get base target spec")
    /\ UNCHANGED <<disk, runs, startDisk>>
    /\ UNCHANGED envVars
    /\ UNCHANGED <<auxVars, child>>

\* create_dir_all(triplet_dir) and fs::write(target.json)
write_descriptor_ok ==
    /\ At("descriptor")
    /\ disk' = [disk EXCEPT !.descriptor = runs]
    /\ Goto("version")
    /\ UNCHANGED <<runs, startDisk>>
    /\ UNCHANGED envVars
    /\ UNCHANGED <<auxVars, child>>

write_descriptor_err ==
    /\ At("descriptor")
    /\ Fail("Failed to write target spec file")
    /\ UNCHANGED <<disk, runs, startDisk>>
    /\ UNCHANGED envVars
    /\ UNCHANGED <<auxVars, child>>

\* cargo version --verbose and the parse of its release line
cargo_version_ok ==
    /\ At("version")
    /\ Goto("crate")
    /\ UNCHANGED <<disk, runs, startDisk>>
    /\ UNCHANGED envVars
    /\ UNCHANGED <<auxVars, child>>

cargo_version_err ==
    /\ At("version")
    /\ Fail("Failed to get cargo version")
    /\ UNCHANGED <<disk, runs, startDisk>>
    /\ UNCHANGED envVars
    /\ UNCHANGED <<auxVars, child>>

\* create_dir_all(crate_dir), write Cargo.toml and lib.rs
write_crate_ok ==
    /\ At("crate")
    /\ disk' = [disk EXCEPT !.crate = runs]
    /\ Goto("rustup")
    /\ UNCHANGED <<runs, startDisk>>
    /\ UNCHANGED envVars
    /\ UNCHANGED <<auxVars, child>>

write_crate_err ==
    /\ At("crate")
    /\ Fail("Failed to write Cargo.toml")
    /\ UNCHANGED <<disk, runs, startDisk>>
    /\ UNCHANGED envVars
    /\ UNCHANGED <<auxVars, child>>

\* no RUSTUP_TOOLCHAIN in the process environment: rustup is not run
rustup_skip ==
    /\ At("rustup")
    /\ ~var_os(hostEnv, "RUSTUP_TOOLCHAIN").some
    /\ Goto("plan")
    /\ UNCHANGED <<disk, runs, startDisk>>
    /\ UNCHANGED envVars
    /\ UNCHANGED <<auxVars, child>>

rustup_ok ==
    /\ At("rustup")
    /\ var_os(hostEnv, "RUSTUP_TOOLCHAIN").some
    /\ Goto("plan")
    /\ UNCHANGED <<disk, runs, startDisk>>
    /\ UNCHANGED envVars
    /\ UNCHANGED <<auxVars, child>>

\* rustup component add rust-src failed: checked_output()? returns the error
rustup_err ==
    /\ At("rustup")
    /\ var_os(hostEnv, "RUSTUP_TOOLCHAIN").some
    /\ Fail("Failed to get Rust's std lib sources")
    /\ UNCHANGED <<disk, runs, startDisk>>
    /\ UNCHANGED envVars
    /\ UNCHANGED <<auxVars, child>>

\* the dry run reports outputs; artifacts is their filtered list
build_plan_ok(outputs) ==
    /\ At("plan")
    /\ sr' = [sr EXCEPT !.pc = "check", !.outputs = outputs,
                        !.artifacts = filter_artifacts(outputs)]
    /\ UNCHANGED <<disk, runs, startDisk>>
    /\ UNCHANGED envVars
    /\ UNCHANGED <<auxVars, child>>

build_plan_err ==
    /\ At("plan")
    /\ Fail("Failed to build sysroot")
    /\ UNCHANGED <<disk, runs, startDisk>>
    /\ UNCHANGED envVars
    /\ UNCHANGED <<auxVars, child>>

\* should_build is false: the real build is skipped
cache_hit ==
    /\ At("check")
    /\ ~should_build(sr.artifacts, disk)
    /\ Goto("mklib")
    /\ UNCHANGED <<disk, runs, startDisk>>
    /\ UNCHANGED envVars
    /\ UNCHANGED <<auxVars, child>>

\* the real build succeeds: every output under the build-plan directory now
\* exists under the build directory; rebuild says whether cargo also
\* rewrote the outputs that were already there
real_build_ok(rebuild) ==
    /\ At("check")
    /\ should_build(sr.artifacts, disk)
    /\ LET produced == {file_name(sr.outputs[i]) : i \in {j \in DOMAIN sr.outputs : sr.outputs[j].under}}
       IN disk' = [disk EXCEPT !.build =
                      [f \in (DOMAIN disk.build) \cup produced |->
                          IF f \in produced /\ (rebuild \/ f \notin DOMAIN disk.build)
                          THEN runs ELSE disk.build[f]]]
    /\ sr' = [sr EXCEPT !.pc = "mklib", !.compiled = TRUE]
    /\ UNCHANGED <<runs, startDisk>>
    /\ UNCHANGED envVars
    /\ UNCHANGED <<auxVars, child>>

\* the real build could not be run or exited with a failure
real_build_err ==
    /\ At("check")
    /\ should_build(sr.artifacts, disk)
    /\ sr' = [sr EXCEPT !.pc = "failed", !.at = "check", !.error = "Failed to build sysroot",
                        !.compiled = TRUE]
    /\ UNCHANGED <<disk, runs, startDisk>>
    /\ UNCHANGED envVars
    /\ UNCHANGED <<auxVars, child>>

\* create_dir_all(lib_dir) and read_dir: the entries to examine.  read_dir
\* is taken to yield every entry of the directory; an entry whose read
\* fails would be skipped by the filter (entry.ok()?) and left in place.
read_lib_dir_ok ==
    /\ At("mklib")
    /\ disk' = [disk EXCEPT !.libdir = TRUE]
    /\ sr' = [sr EXCEPT !.pc = "remove", !.listing = DOMAIN disk.lib]
    /\ UNCHANGED <<runs, startDisk>>
    /\ UNCHANGED envVars
    /\ UNCHANGED <<auxVars, child>>

read_lib_dir_err ==
    /\ At("mklib")
    /\ Fail("Failed to read sysroot lib directory")
    /\ UNCHANGED <<disk, runs, startDisk>>
    /\ UNCHANGED envVars
    /\ UNCHANGED <<auxVars, child>>

\* the next entry is the file name of an artifact: it is kept
keep_entry(entry) ==
    /\ At("remove")
    /\ entry \in sr.listing
    /\ ~is_stale(sr.artifacts, entry)
    /\ sr' = [sr EXCEPT !.listing = @ \ {entry}]
    /\ UNCHANGED <<disk, runs, startDisk>>
    /\ UNCHANGED envVars
    /\ UNCHANGED <<auxVars, child>>

\* the next entry is stale: remove_file succeeds
remove_stale_ok(entry) ==
    /\ At("remove")
    /\ entry \in sr.listing
    /\ is_stale(sr.artifacts, entry)
    /\ entry \in DOMAIN disk.lib
    /\ disk' = [disk EXCEPT !.lib = Remove(@, entry)]
    /\ sr' = [sr EXCEPT !.listing = @ \ {entry}]
    /\ UNCHANGED <<runs, startDisk>>
    /\ UNCHANGED envVars
    /\ UNCHANGED <<auxVars, child>>

remove_stale_err(entry) ==
    /\ At("remove")
    /\ entry \in sr.listing
    /\ is_stale(sr.artifacts, entry)
    /\ Fail("Failed to remove old sysroot artifact")
    /\ UNCHANGED <<disk, runs, startDisk>>
    /\ UNCHANGED envVars
    /\ UNCHANGED <<auxVars, child>>

\* the entries are exhausted: the copy loop starts
remove_done ==
    /\ At("remove")
    /\ sr.listing = {}
    /\ sr' = [sr EXCEPT !.pc = "copy", !.next = 1]
    /\ UNCHANGED <<disk, runs, startDisk>>
    /\ UNCHANGED envVars
    /\ UNCHANGED <<auxVars, child>>

Copying == At("copy") /\ sr.next <= Len(sr.artifacts)

\* dst.exists(): the artifact is not copied
copy_skip ==
    /\ Copying
    /\ file_name(sr.artifacts[sr.next]) \in DOMAIN disk.lib
    /\ sr' = [sr EXCEPT !.next = @ + 1]
    /\ UNCHANGED <<disk, runs, startDisk>>
    /\ UNCHANGED envVars
    /\ UNCHANGED <<auxVars, child>>

copy_ok ==
    /\ Copying
    /\ LET f == file_name(sr.artifacts[sr.next])
       IN /\ f \notin DOMAIN disk.lib
          /\ f \in DOMAIN disk.build
          /\ disk' = [disk EXCEPT !.lib = Insert(@, f, [built |-> disk.build[f], copied |-> runs])]
    /\ sr' = [sr EXCEPT !.next = @ + 1]
    /\ UNCHANGED <<runs, startDisk>>
    /\ UNCHANGED envVars
    /\ UNCHANGED <<auxVars, child>>

copy_err ==
    /\ Copying
    /\ file_name(sr.artifacts[sr.next]) \notin DOMAIN disk.lib
    /\ Fail("Failed to copy sysroot artifact")
    /\ UNCHANGED <<disk, runs, startDisk>>
    /\ UNCHANGED envVars
    /\ UNCHANGED <<auxVars, child>>

\* Ok(sysroot_dir)
build_returns ==
    /\ At("copy")
    /\ sr.next > Len(sr.artifacts)
    /\ Goto("done")
    /\ UNCHANGED <<disk, runs, startDisk>>
    /\ UNCHANGED envVars
    /\ UNCHANGED <<auxVars, child>>

SysrootNext ==
    \/ \E t \in SysrootTargets : build(t)
    \/ unsupported_target
    \/ get_spec_ok
    \/ get_spec_err
    \/ write_descriptor_ok
    \/ write_descriptor_err
    \/ cargo_version_ok
    \/ cargo_version_err
    \/ write_crate_ok
    \/ write_crate_err
    \/ rustup_skip
    \/ rustup_ok
    \/ rustup_err
    \/ \E outputs \in Plans : build_plan_ok(outputs)
    \/ build_plan_err
    \/ cache_hit
    \/ \E rebuild \in BOOLEAN : real_build_ok(rebuild)
    \/ real_build_err
    \/ read_lib_dir_ok
    \/ read_lib_dir_err
    \/ \E entry \in EntryNames : keep_entry(entry)
    \/ \E entry \in EntryNames : remove_stale_ok(entry)
    \/ \E entry \in EntryNames : remove_stale_err(entry)
    \/ remove_done
    \/ copy_skip
    \/ copy_ok
    \/ copy_err
    \/ build_returns

SpecSysroot == SysrootInit /\ [][SysrootNext]_vars

(***************************************************************************)
(* Properties of the sysroot build                                         *)
(***************************************************************************)
\* the invocation has decided whether to run the real build
PastCheck ==
    \/ sr.pc \in {"mklib", "remove", "copy", "done"}
    \/ sr.pc = "failed" /\ sr.at \in {"check", "mklib", "remove", "copy"}

\* C10: the real compile step is invoked if and only if some path of the
\* expected artifact set did not exist on disk; when all of them exist the
\* build goes to the synchronization of the library directory without it.
CacheHitSkipsCompile ==
    /\ PastCheck =>
          (sr.compiled <=>
              \E i \in DOMAIN sr.artifacts :
                  file_name(sr.artifacts[i]) \notin DOMAIN startDisk.build)
    /\ ~PastCheck => ~sr.compiled

\* a rerun whose non-empty artifact set exists already returns without
\* having compiled
CacheHitSkipsCompileWitness ==
    /\ sr.pc = "done"
    /\ runs > 1
    /\ sr.artifacts # <<>>
    /\ ~sr.compiled
    /\ \A i \in DOMAIN sr.artifacts : file_name(sr.artifacts[i]) \in DOMAIN startDisk.build

\* the file names of the expected artifact set of the running invocation
ArtifactNames == {file_name(sr.artifacts[i]) : i \in DOMAIN sr.artifacts}

\* every file of tree d0 is in tree d1 as it was: not removed, not rewritten
Unmodified(d0, d1) ==
    /\ d0.descriptor # 0 => d1.descriptor = d0.descriptor
    /\ d0.crate # 0 => d1.crate = d0.crate
    /\ \A f \in DOMAIN d0.build : f \in DOMAIN d1.build /\ d1.build[f] = d0.build[f]
    /\ \A f \in DOMAIN d0.lib : f \in DOMAIN d1.lib /\ d1.lib[f] = d0.lib[f]

\* the invocation started on a tree where the expected artifact set fully
\* exists and the library directory is in sync with it
StartedInSync ==
    /\ runs > 1
    /\ startDisk.descriptor # 0
    /\ ArtifactNames \subseteq DOMAIN startDisk.build
    /\ DOMAIN startDisk.lib = ArtifactNames

\* C11: a rerun on a target directory where the expected artifact set fully
\* exists and the library directory is already in sync leaves every existing
\* file of the sysroot tree unmodified.
SyncedRerunLeavesFilesUnmodified ==
    (sr.pc = "done" /\ StartedInSync) => Unmodified(startDisk, disk)

NoPartialSuccess ==
    sr.pc = "failed" =>
        /\ \A f \in DOMAIN disk.lib : disk.lib[f].copied # runs
        /\ \A f \in DOMAIN startDisk.lib : f \in ArtifactNames => f \in DOMAIN disk.lib
        /\ disk.descriptor = startDisk.descriptor

\* the position of a step of build in its order
StepRank(p) ==
    CASE p = "idle" -> 0
      [] p = "spec" -> 1
      [] p = "descriptor" -> 2
      [] p = "version" -> 3
      [] p = "crate" -> 4
      [] p = "rustup" -> 5
      [] p = "plan" -> 6
      [] p = "check" -> 7
      [] p = "mklib" -> 8
      [] p = "remove" -> 9
      [] p = "copy" -> 10
      [] OTHER -> 11

\* C24: within one invocation build never goes back to an earlier step, and
\* the target descriptor is written only after the scratch crate of the same
\* invocation has been written.
BuildStepOrder ==
    [][ /\ \/ (sr'.pc = "spec" /\ runs' = runs + 1)
           \/ StepRank(sr'.pc) >= StepRank(sr.pc)
        /\ disk'.descriptor # disk.descriptor => disk.crate = runs ]_vars

\* the dry run of the invocation has reported its outputs
Planned == sr.pc = "check" \/ PastCheck

\* the part of a file name before its extension, and the crate part of that
\* (all of it when there is no '-')
Stem(name) == SubSeq(name, 1, Max(Positions(name, ".")) - 1)
Extension(name) == SubSeq(name, Max(Positions(name, ".")) + 1, Len(name))
CrateStem(name) ==
    IF Positions(Stem(name), "-") = {} THEN Stem(name)
    ELSE SubSeq(Stem(name), 1, Min(Positions(Stem(name), "-")) - 1)

\* an output under the build-plan directory that is a library or metadata
\* file not stemming from the placeholder crate
LibraryOutput(path) ==
    /\ path.under
    /\ Positions(path.name, ".") # {}
    /\ Str(Extension(path.name)) \in {"rlib", "rmeta"}
    /\ Str(CrateStem(path.name)) # "libsysroot"

\* C25: the expected artifact set is exactly the reported outputs with
\* extension rlib or rmeta whose stem is not libsysroot, with or without a
\* '-<hash>' suffix in the file name, each taken relative to the build-plan
\* directory and re-rooted under the build directory.
FilterKeepsEveryLibrary ==
    Planned =>
        /\ ArtifactNames =
              {file_name(sr.outputs[i]) :
                  i \in {j \in DOMAIN sr.outputs : LibraryOutput(sr.outputs[j])}}
        /\ \A i \in DOMAIN sr.artifacts : sr.artifacts[i].under

\* C27: a build that returns success had a non-empty expected artifact set
\* and leaves a non-empty library directory.
SuccessNeverEmpty ==
    sr.pc = "done" => (ArtifactNames # {} /\ DOMAIN disk.lib # {})

\* C28: after builds that all returned success every file of the library
\* directory has the content of the artifact of the same name in the build
\* directory.
LibContentMatchesBuild ==
    (sr.pc = "done" /\ sr.clean) =>
        \A f \in DOMAIN disk.lib :
            f \in DOMAIN disk.build /\ disk.lib[f].built = disk.build[f]

\* C17: build for a triple other than x86_64-hyperlight-none fails with the
\* unsupported-target error naming the triple and without any write: the
\* tree on disk is the one the invocation started with.
UnsupportedTargetWritesNothing ==
    (sr.target # HyperlightTriple /\ sr.pc \notin {"idle", "spec"}) =>
        /\ sr.pc = "failed"
        /\ sr.at = "spec"
        /\ sr.error = "Unsupported target triple: " \o Str(sr.target)
        /\ disk = startDisk

\* the unsupported triple was requested on a tree an earlier build had filled
UnsupportedTargetWritesNothingWitness ==
    /\ sr.pc = "failed"
    /\ sr.target = Aarch64Triple
    /\ sr.error = "Unsupported target triple: aarch64-hyperlight-none"
    /\ startDisk.descriptor # 0

\* C19: the installation of the runtime sources is best-effort: build never
\* fails at that step.
RustupBestEffort ==
    ~(sr.pc = "failed" /\ sr.at = "rustup")

(***************************************************************************)
(* Toolchain locator (toolchain.rs): find_cc and find_ar on an executable   *)
(* search path.  A directory is the set of names of its executables, a name *)
(* is a sequence of characters, the search path a sequence of directories.  *)
(***************************************************************************)
MaxDirs == 2        \* directories on the search path
MaxDirEntries == 2  \* executables in one directory

Digits == {"0", "1", "2", "3", "4", "5", "6", "7", "8", "9"}

ClangName == <<"c","l","a","n","g">>
Clang19Name == <<"c","l","a","n","g","-","1","9">>
Clang20Name == <<"c","l","a","n","g","-","2","0">>
ClangFormatName == <<"c","l","a","n","g","-","f","o","r","m","a","t">>
ArName == <<"a","r">>
LlvmArName == <<"l","l","v","m","-","a","r">>
LlvmAr20Name == <<"l","l","v","m","-","a","r","-","2","0">>
GccName == <<"g","c","c">>
\* an executable whose name contains a version-suffixed compiler name
MuslClang20Name == <<"m","u","s","l","-","c","l","a","n","g","-","2","0">>

\* Regex::new(r"clang-\d+") and Regex::new(r"llvm-ar-\d+"), as the text
\* before the digits
ClangRe == <<"c","l","a","n","g","-">>
LlvmArRe == <<"l","l","v","m","-","a","r","-">>

\* Regex::is_match for a pattern  <literal>\d+ : some occurrence of the
\* literal in name is followed by a digit
is_match(literal, name) ==
    \E i \in 1..Len(name) :
        /\ i + Len(literal) <= Len(name)
        /\ SubSeq(name, i, i + Len(literal) - 1) = literal
        /\ name[i + Len(literal)] \in Digits

FoundAt(i, n) == [dir |-> i, name |-> Str(n)]

\* which::which(name): the executable of that name in the first directory
\* of the search path that has one
which(path, name) ==
    LET dirs == {i \in DOMAIN path : name \in path[i]}
    IN IF dirs = {} THEN {} ELSE {FoundAt(Min(dirs), name)}

\* which::which_re(re).next(): a matching executable of the first directory
\* that has one; the order inside a directory is the order of read_dir
which_re(path, literal) ==
    LET dirs == {i \in DOMAIN path : \E n \in path[i] : is_match(literal, n)}
    IN IF dirs = {} THEN {}
       ELSE {FoundAt(Min(dirs), n) : n \in {m \in path[Min(dirs)] : is_match(literal, m)}}

Found(x) == [called |-> TRUE, ok |-> TRUE, v |-> x]
NotFound(msg) == [called |-> TRUE, ok |-> FALSE, error |-> msg]

\* a find_cc that tries the version-suffixed names first
find_cc_versioned_first(path) ==
    IF which_re(path, ClangRe) # {} THEN {Found(x) : x \in which_re(path, ClangRe)}
    ELSE IF which(path, ClangName) # {} THEN {Found(x) : x \in which(path, ClangName)}
    ELSE {NotFound("Could not find 'clang' in PATH")}

\* the results find_cc may return on the search path
find_cc(path) ==
    IF which(path, ClangName) # {} THEN {Found(x) : x \in which(path, ClangName)}
    ELSE IF which_re(path, ClangRe) # {} THEN {Found(x) : x \in which_re(path, ClangRe)}
    ELSE {NotFound("Could not find 'clang' in PATH")}

\* the results find_ar may return on the search path
find_ar(path) ==
    IF which(path, ArName) # {} THEN {Found(x) : x \in which(path, ArName)}
    ELSE IF which(path, LlvmArName) # {} THEN {Found(x) : x \in which(path, LlvmArName)}
    ELSE IF which_re(path, LlvmArRe) # {} THEN {Found(x) : x \in which_re(path, LlvmArRe)}
    ELSE {NotFound("Could not find 'ar' or 'llvm-ar' in PATH")}

ToolNames == {ClangName, Clang19Name, Clang20Name, ClangFormatName,
              ArName, LlvmArName, LlvmAr20Name, GccName, MuslClang20Name}
Directories == {d \in SUBSET ToolNames : Cardinality(d) <= MaxDirEntries}
SearchPaths == UNION {[1..n -> Directories] : n \in 0..MaxDirs}

LocatorInit ==
    /\ hostEnv = EmptyMap
    /\ cmd = Command_new(hostEnv)
    /\ calls = <<>>
    /\ pc = "locator"
    /\ mode = "none"
    /\ args = NoArgs
    /\ std = StdCommand_new
    /\ childEnv = EmptyMap
    /\ last = NoOp
    /\ nsets = 0
    /\ nappends = 0
    /\ NoSysroot
    /\ locator \in {[NoLocator EXCEPT !.path = p] : p \in SearchPaths}
    /\ target_spec = NoTargetSpec
    /\ par = NoPar
    /\ child = NoChild

call_find_cc ==
    /\ pc = "locator"
    /\ \E r \in find_cc(locator.path) : locator' = [locator EXCEPT !.cc = r]
    /\ UNCHANGED <<envVars, sysVars, target_spec, child, par>>

call_find_ar ==
    /\ pc = "locator"
    /\ \E r \in find_ar(locator.path) : locator' = [locator EXCEPT !.ar = r]
    /\ UNCHANGED <<envVars, sysVars, target_spec, child, par>>

LocatorNext ==
    \/ call_find_cc
    \/ call_find_ar

SpecLocator == LocatorInit /\ [][LocatorNext]_vars

(***************************************************************************)
(* Properties of the toolchain locator                                     *)
(***************************************************************************)
\* name is base, a dash and a numeric version
Versioned(base, name) ==
    /\ Len(name) > Len(base) + 1
    /\ SubSeq(name, 1, Len(base)) = base
    /\ name[Len(base) + 1] = "-"
    /\ \A i \in (Len(base) + 2)..Len(name) : name[i] \in Digits

\* the directories of the search path that hold the executable name, and
\* those that hold a version-suffixed name of base
DirsWithName(name) == {i \in DOMAIN locator.path : name \in locator.path[i]}
DirsWithVersioned(base) ==
    {i \in DOMAIN locator.path : \E n \in locator.path[i] : Versioned(base, n)}

\* result r follows the locator algorithm for the primary names (in that
\* order), then the version-suffixed names of base, else the error msg
Located(r, primaries, base, msg) ==
    LET hits == {k \in DOMAIN primaries : DirsWithName(primaries[k]) # {}}
    IN IF hits # {}
       THEN LET k == Min(hits)
            IN r.ok /\ r.v = FoundAt(Min(DirsWithName(primaries[k])), primaries[k])
       ELSE IF DirsWithVersioned(base) # {}
       THEN /\ r.ok
            /\ r.v.dir = Min(DirsWithVersioned(base))
            /\ \E n \in locator.path[r.v.dir] : Versioned(base, n) /\ r.v.name = Str(n)
       ELSE ~r.ok /\ r.error = msg

\* C15: find_cc returns the unversioned compiler when it is on the search
\* path, else a version-suffixed one of the first directory that has one,
\* else fails naming the tool; find_ar does the same with ar, then llvm-ar,
\* then the version-suffixed llvm-ar.
LocatorContract ==
    /\ locator.cc.called =>
          Located(locator.cc, <<ClangName>>, ClangName, "Could not find 'clang' in PATH")
    /\ locator.ar.called =>
          Located(locator.ar, <<ArName, LlvmArName>>, LlvmArName,
                  "Could not find 'ar' or 'llvm-ar' in PATH")

\* the compiler was found by its version suffix in the second directory and
\* the archiver by its alternate name
LocatorContractWitness ==
    /\ locator.cc.called /\ locator.cc.ok
    /\ locator.cc.v.name = "clang-20" /\ locator.cc.v.dir = 2
    /\ locator.ar.called /\ locator.ar.ok
    /\ locator.ar.v.name = "llvm-ar"

\* C26: a tool found by the versioned fallback has a name that is exactly
\* clang-<digits> (find_cc) or llvm-ar-<digits> (find_ar); an executable
\* whose name only contains such a text is never returned.
VersionedFallbackExact ==
    /\ (locator.cc.called /\ locator.cc.ok /\ locator.cc.v.name # Str(ClangName)) =>
          \E n \in ToolNames : Versioned(ClangName, n) /\ locator.cc.v.name = Str(n)
    /\ (locator.ar.called /\ locator.ar.ok
           /\ locator.ar.v.name \notin {Str(ArName), Str(LlvmArName)}) =>
          \E n \in ToolNames : Versioned(LlvmArName, n) /\ locator.ar.v.name = Str(n)

(***************************************************************************)
(* Target specification (sysroot.rs): the baseline queried by get_spec, the *)
(* five assignments of build, and the descriptor written to target.json.   *)
(* A TargetSpec is a map from the field names that are Some to their       *)
(* values; serialization writes the fields that are Some.                  *)
(***************************************************************************)
PatchedFields == {"entry-name", "code-model", "linker", "linker-flavor", "pre-link-args"}
OtherFields == {"arch", "llvm-target", "panic-strategy"}

\* the values a baseline may give a field
FieldValues(f) ==
    CASE f = "entry-name" -> {"_start"}
      [] f = "code-model" -> {"kernel"}
      [] f = "linker" -> {"rust-lld"}
      [] f = "linker-flavor" -> {"gnu-lld"}
      [] f = "pre-link-args" -> {[x \in {"gnu-lld"} |-> <<"-m64">>]}
      [] f = "arch" -> {"x86_64"}
      [] f = "llvm-target" -> {"x86_64-unknown-none-elf"}
      [] f = "panic-strategy" -> {"abort", "unwind"}

\* the target specifications rustc may print for the baseline triple
RECURSIVE WithFields(_, _)
WithFields(specs, fields) ==
    IF fields = {} THEN specs
    ELSE LET f == CHOOSE x \in fields : TRUE
         IN WithFields(specs \cup {Insert(b, f, v) : b \in specs, v \in FieldValues(f)},
                       fields \ {f})

Baselines == WithFields({EmptyMap}, PatchedFields \cup OtherFields)

\* serde_json::from_slice::<TargetSpec> and serde_json::to_string_pretty:
\* the fields of the structure, those that are Some
from_slice(json) == [f \in DOMAIN json \cap (PatchedFields \cup OtherFields) |-> json[f]]
to_string_pretty(spec) == [f \in DOMAIN spec |-> spec[f]]

\* a patch that also forces the panic strategy
patch_sets_panic_strategy(spec) ==
    Insert(Insert(Insert(Insert(Insert(Insert(spec,
        "entry-name", "entrypoint"),
        "code-model", "small"),
        "linker", "rust-lld"),
        "linker-flavor", "gnu-lld"),
        "pre-link-args", [x \in {"gnu-lld"} |-> <<"-znostart-stop-gc">>]),
        "panic-strategy", "abort")

\* the arm of the match for x86_64-hyperlight-none: five assignments
patch(spec) ==
    Insert(Insert(Insert(Insert(Insert(spec,
        "entry-name", "entrypoint"),
        "code-model", "small"),
        "linker", "rust-lld"),
        "linker-flavor", "gnu-lld"),
        "pre-link-args", [x \in {"gnu-lld"} |-> <<"-znostart-stop-gc">>])

TargetInit ==
    /\ hostEnv = EmptyMap
    /\ cmd = Command_new(hostEnv)
    /\ calls = <<>>
    /\ pc = "target"
    /\ mode = "none"
    /\ args = NoArgs
    /\ std = StdCommand_new
    /\ childEnv = EmptyMap
    /\ last = NoOp
    /\ nsets = 0
    /\ nappends = 0
    /\ NoSysroot
    /\ locator = NoLocator
    /\ target_spec = [NoTargetSpec EXCEPT !.written = "no"]
    /\ par = NoPar
    /\ child = NoChild

\* get_spec(args, "x86_64-unknown-none") parsed the output of rustc
query_baseline(b) ==
    /\ pc = "target" /\ target_spec.written = "no"
    /\ target_spec' = [baseline |-> b, spec |-> from_slice(b), written |-> "queried"]
    /\ UNCHANGED <<envVars, sysVars, locator, child, par>>

patch_target_spec ==
    /\ pc = "target" /\ target_spec.written = "queried"
    /\ target_spec' = [target_spec EXCEPT !.spec = patch(@), !.written = "patched"]
    /\ UNCHANGED <<envVars, sysVars, locator, child, par>>

\* fs::write(target.json, to_string_pretty(&target_spec))
write_target_json ==
    /\ pc = "target" /\ target_spec.written = "patched"
    /\ target_spec' = [target_spec EXCEPT !.spec = to_string_pretty(@), !.written = "written"]
    /\ UNCHANGED <<envVars, sysVars, locator, child, par>>

TargetNext ==
    \/ \E b \in Baselines : query_baseline(b)
    \/ patch_target_spec
    \/ write_target_json

SpecTarget == TargetInit /\ [][TargetNext]_vars

Invocations == {"first", "second"}

\* the outputs a dry run may report to a concurrent invocation
ParPlans == { <<Candidates[1]>>,
              <<Candidates[2], Candidates[3]>>,
              <<Candidates[1], Candidates[2]>> }

\* the file names the library directory may hold from earlier builds
ParStartNames == {Str(LibCore), Str(LibStd)}

ParStart ==
    [ pc |-> "plan", outputs |-> <<>>, artifacts |-> <<>>, listing |-> {}, next |-> 0,
      writing |-> FALSE, compiled |-> FALSE, error |-> "", entry |-> "",
      disturbed |-> FALSE,     \* another invocation changed the library directory
                               \* between the listing and the return of this one
      left |-> {} ]            \* the names in the library directory at the return

ParInit ==
    /\ hostEnv = EmptyMap
    /\ cmd = Command_new(hostEnv)
    /\ calls = <<>>
    /\ pc = "concurrent"
    /\ mode = "none"
    /\ args = NoArgs
    /\ std = StdCommand_new
    /\ childEnv = EmptyMap
    /\ last = NoOp
    /\ nsets = 0
    /\ nappends = 0
    /\ \E S \in SUBSET ParStartNames :
          disk = [EmptyDisk EXCEPT
                     !.build = [f \in S |-> "earlier"],
                     !.libdir = (S # {}),
                     !.lib = [f \in S |-> [built |-> "earlier", copied |-> "earlier"]]]
    /\ sr = IdleRun
    /\ runs = 0
    /\ startDisk = EmptyDisk
    /\ locator = NoLocator
    /\ target_spec = NoTargetSpec
    /\ child = NoChild
    /\ par = [NoPar EXCEPT !.run = [p \in Invocations |-> ParStart]]

ParAt(p, at) == pc = "concurrent" /\ par.run[p].pc = at

ParFrame == UNCHANGED <<envVars, sr, runs, startDisk, locator, target_spec, child>>

\* the invocations that have listed the library directory and not returned
\* see a change made by p
Touch(run, p) ==
    [q \in Invocations |->
        IF q # p /\ run[q].pc \in {"remove", "copy"}
        THEN [run[q] EXCEPT !.disturbed = TRUE] ELSE run[q]]

par_build_plan(p, outputs) ==
    /\ ParAt(p, "plan")
    /\ par' = [par EXCEPT !.run[p].pc = "check",
                          !.run[p].outputs = outputs,
                          !.run[p].artifacts = filter_artifacts(outputs)]
    /\ UNCHANGED disk
    /\ ParFrame

par_cache_hit(p) ==
    /\ ParAt(p, "check")
    /\ ~should_build(par.run[p].artifacts, disk)
    /\ par' = [par EXCEPT !.run[p].pc = "mklib"]
    /\ UNCHANGED disk
    /\ ParFrame

par_real_build_ok(p) ==
    /\ ParAt(p, "check")
    /\ should_build(par.run[p].artifacts, disk)
    /\ LET outputs == par.run[p].outputs
           produced == {file_name(outputs[i]) : i \in {j \in DOMAIN outputs : outputs[j].under}}
       IN disk' = [disk EXCEPT !.build =
                      [f \in (DOMAIN disk.build) \cup produced |->
                          IF f \in DOMAIN disk.build THEN disk.build[f] ELSE p]]
    /\ par' = [par EXCEPT !.run[p].pc = "mklib", !.run[p].compiled = TRUE]
    /\ ParFrame

\* a listing that yields no entry
par_read_lib_dir_empty(p) ==
    /\ ParAt(p, "mklib")
    /\ disk' = [disk EXCEPT !.libdir = TRUE]
    /\ par' = [par EXCEPT !.run[p].pc = "remove", !.run[p].listing = {}]
    /\ ParFrame

\* create_dir_all(lib_dir) and read_dir
par_read_lib_dir(p) ==
    /\ ParAt(p, "mklib")
    /\ disk' = [disk EXCEPT !.libdir = TRUE]
    /\ par' = [par EXCEPT !.run[p].pc = "remove", !.run[p].listing = DOMAIN disk.lib]
    /\ ParFrame

par_keep_entry(p, entry) ==
    /\ ParAt(p, "remove")
    /\ entry \in par.run[p].listing
    /\ ~is_stale(par.run[p].artifacts, entry)
    /\ par' = [par EXCEPT !.run[p].listing = @ \ {entry}]
    /\ UNCHANGED disk
    /\ ParFrame

\* remove_file of a stale entry that is still there
par_remove_ok(p, entry) ==
    /\ ParAt(p, "remove")
    /\ entry \in par.run[p].listing
    /\ is_stale(par.run[p].artifacts, entry)
    /\ entry \in DOMAIN disk.lib
    /\ disk' = [disk EXCEPT !.lib = Remove(@, entry)]
    /\ par' = [par EXCEPT
                  !.run = [Touch(par.run, p) EXCEPT ![p].listing = @ \ {entry}],
                  !.pruned = Insert(@, entry, p),
                  !.stolen = IF disk.lib[entry].copied \in Invocations \ {p}
                             THEN @ \cup {[file |-> entry, copier |-> disk.lib[entry].copied,
                                           pruner |-> p]}
                             ELSE @]
    /\ ParFrame

\* remove_file of a stale entry that is gone: the ? returns the error
par_remove_err(p, entry) ==
    /\ ParAt(p, "remove")
    /\ entry \in par.run[p].listing
    /\ is_stale(par.run[p].artifacts, entry)
    /\ entry \notin DOMAIN disk.lib
    /\ par' = [par EXCEPT !.run[p].pc = "failed", !.run[p].entry = entry,
                          !.run[p].error = "Failed to remove old sysroot artifact"]
    /\ UNCHANGED disk
    /\ ParFrame

par_remove_done(p) ==
    /\ ParAt(p, "remove")
    /\ par.run[p].listing = {}
    /\ par' = [par EXCEPT !.run[p].pc = "copy", !.run[p].next = 1]
    /\ UNCHANGED disk
    /\ ParFrame

ParCopying(p) ==
    ParAt(p, "copy") /\ par.run[p].next <= Len(par.run[p].artifacts)

\* dst.exists(): the artifact is not copied
par_copy_exists(p) ==
    /\ ParCopying(p)
    /\ ~par.run[p].writing
    /\ file_name(par.run[p].artifacts[par.run[p].next]) \in DOMAIN disk.lib
    /\ par' = [par EXCEPT !.run[p].next = @ + 1]
    /\ UNCHANGED disk
    /\ ParFrame

\* !dst.exists(): fs::copy is about to be called
par_copy_absent(p) ==
    /\ ParCopying(p)
    /\ ~par.run[p].writing
    /\ file_name(par.run[p].artifacts[par.run[p].next]) \notin DOMAIN disk.lib
    /\ par' = [par EXCEPT !.run[p].writing = TRUE]
    /\ UNCHANGED disk
    /\ ParFrame

\* a copy that writes nothing
par_copy_write_nothing(p) ==
    /\ ParCopying(p)
    /\ par.run[p].writing
    /\ par' = [par EXCEPT !.run[p].writing = FALSE, !.run[p].next = @ + 1]
    /\ UNCHANGED disk
    /\ ParFrame

\* fs::copy(artifact, dst): creates or replaces dst
par_copy_write(p) ==
    /\ ParCopying(p)
    /\ par.run[p].writing
    /\ LET f == file_name(par.run[p].artifacts[par.run[p].next])
       IN /\ f \in DOMAIN disk.build
          /\ disk' = [disk EXCEPT !.lib =
                         [g \in (DOMAIN disk.lib) \cup {f} |->
                             IF g = f THEN [built |-> disk.build[f], copied |-> p]
                             ELSE disk.lib[g]]]
    /\ par' = [par EXCEPT
                  !.run = [Touch(par.run, p) EXCEPT ![p].writing = FALSE, ![p].next = @ + 1]]
    /\ ParFrame

\* Ok(sysroot_dir)
par_returns(p) ==
    /\ ParAt(p, "copy")
    /\ par.run[p].next > Len(par.run[p].artifacts)
    /\ par' = [par EXCEPT !.run[p].pc = "done", !.run[p].left = DOMAIN disk.lib]
    /\ UNCHANGED disk
    /\ ParFrame

ParNext ==
    \/ \E p \in Invocations, outputs \in ParPlans : par_build_plan(p, outputs)
    \/ \E p \in Invocations : par_cache_hit(p)
    \/ \E p \in Invocations : par_real_build_ok(p)
    \/ \E p \in Invocations : par_read_lib_dir(p)
    \/ \E p \in Invocations, entry \in ParStartNames \cup EntryNames : par_keep_entry(p, entry)
    \/ \E p \in Invocations, entry \in ParStartNames \cup EntryNames : par_remove_ok(p, entry)
    \/ \E p \in Invocations, entry \in ParStartNames \cup EntryNames : par_remove_err(p, entry)
    \/ \E p \in Invocations : par_remove_done(p)
    \/ \E p \in Invocations : par_copy_exists(p)
    \/ \E p \in Invocations : par_copy_absent(p)
    \/ \E p \in Invocations : par_copy_write(p)
    \/ \E p \in Invocations : par_returns(p)

SpecConcurrent == ParInit /\ [][ParNext]_vars

(***************************************************************************)
(* Properties of concurrent invocations                                    *)
(***************************************************************************)
ParArtifactNames(p) ==
    {file_name(par.run[p].artifacts[i]) : i \in DOMAIN par.run[p].artifacts}

\* C23: build takes no lock on the library directory: the steps of another
\* invocation can fall between the listing, the pruning and the copying of
\* one, and it is only through them that an invocation returns success on a
\* library directory that differs from its artifact set.
UnlockedLibDir ==
    \A p \in Invocations :
        (par.run[p].pc = "done" /\ par.run[p].left # ParArtifactNames(p)) =>
            par.run[p].disturbed

\* a file copied by one invocation was deleted by the pruning of the other,
\* and the one that copied it returned success on a library directory that
\* is not its artifact set
UnlockedLibDirWitness ==
    \E p \in Invocations :
        /\ par.run[p].pc = "done"
        /\ par.run[p].left # ParArtifactNames(p)
        /\ \E t \in par.stolen : t.copier = p /\ t.pruner # p /\ t.file \notin par.run[p].left

\* both invocations have their artifact set, and it is the same
SameArtifacts ==
    /\ \A p \in Invocations : par.run[p].pc # "plan"
    /\ \A p, q \in Invocations : par.run[p].artifacts = par.run[q].artifacts

====
